---- MODULE Spec2Model ----
(***************************************************************************)
(* Model of ctypes_array_fill.ipynb: two native fill routines              *)
(* (array_fill.c, array_fill_2d.c) and the two Python wrappers that coerce *)
(* a NumPy array with np.ascontiguousarray and hand its data pointer and   *)
(* dimensions to the native routine through ctypes.                        *)
(*                                                                         *)
(* Memory is a pair of stores: "orig" is the storage behind the caller's   *)
(* array object, "copy" is the storage np.ascontiguousarray allocates when *)
(* it has to copy.  An ndarray is a view record (shape, strides in         *)
(* elements, offset, dtype, store).  Element values are integers; a double *)
(* holding an integral value v (|v| < 2^53) is represented by v.  All      *)
(* counters stay far below 2^64, so size_t arithmetic never wraps.         *)
(***************************************************************************)
EXTENDS Integers, Sequences, FiniteSets, TLC

VARIABLES
    array,   \* the caller's ndarray object (never rebound by the wrappers)
    mem,     \* [orig |-> storage of the caller's array, copy |-> storage of the coerced copy]
    pc,      \* position of the running wrapper call
    fn,      \* which wrapper is running: "1d", "2d" or "none"
    arr,     \* the wrappers' local variable arr
    loc,     \* the wrappers' locals size, rows, cols
    err,     \* exception raised to the caller by the last call ("none" if none)
    n1,      \* activation of the native routine fill_array
    n2,      \* activation of the native routine fill_array_2d
    calls,   \* number of wrapper calls started so far
    pre,     \* storage of the caller's array when the current call started
    snap     \* what the first call that returned left behind

vars == <<array, mem, pc, fn, arr, loc, err, n1, n2, calls, pre, snap>>

\* ---------------------------------------------------------------- bounds
MaxLen == 4
MaxDim == 3
MaxCalls == 2
Values == {0, 9}
DTypes == {"f64", "i64", "text"}

\* ------------------------------------------------------- ndarray helpers
RECURSIVE Prod(_)
Prod(s) == IF s = <<>> THEN 1 ELSE Head(s) * Prod(Tail(s))

\* ndarray.size
SizeOf(a) == Prod(a.shape)

\* strides (in elements) of a C-ordered array of this shape
CStrides(shape) == [k \in 1..Len(shape) |-> Prod(SubSeq(shape, k + 1, Len(shape)))]

RECURSIVE DotFrom(_, _, _)
DotFrom(a, f, k) ==
    IF k > Len(a.shape) THEN 0
    ELSE ((f \div CStrides(a.shape)[k]) % a.shape[k]) * a.strides[k] + DotFrom(a, f, k + 1)

\* address, in a's store, of the element with C-order flat index f
ElemAddr(a, f) == a.offset + DotFrom(a, f, 1)

\* the elements of a in C order, as the caller reads them
Contents(a, m) == [f \in 1..SizeOf(a) |-> m[a.store][ElemAddr(a, f - 1) + 1]]

\* number of storage cells the view needs
Extent(a) ==
    IF SizeOf(a) = 0 THEN a.offset
    ELSE 1 + CHOOSE x \in {ElemAddr(a, f) : f \in 0..(SizeOf(a) - 1)} :
                 \A y \in {ElemAddr(a, f) : f \in 0..(SizeOf(a) - 1)} : y <= x

\* the C_CONTIGUOUS flag as NumPy computes it: an empty array is contiguous,
\* and the stride of a dimension of length 1 is not looked at
IsCContiguous(a) ==
    \/ SizeOf(a) = 0
    \/ \A k \in 1..Len(a.shape) :
          a.shape[k] = 1 \/ a.strides[k] = CStrides(a.shape)[k]

\* ndmin=1: a 0-d array becomes a 1-d array of one element
AtLeast1D(shape) == IF shape = <<>> THEN <<1>> ELSE shape

\* variants of NoCopy: the contiguity test left out; a copy made every time
NoCopyDtypeOnly(a) == a.dtype = "f64"

NoCopyNever(a) == FALSE

\* np.ascontiguousarray returns a view of the same storage (no copy)
NoCopy(a) == a.dtype = "f64" /\ IsCContiguous(a)

\* conversion of a numeric element to double; exact for the small integers used
DoubleOf(v) == v

\* the array object np.ascontiguousarray(a, dtype=np.float64) returns
AsContiguous(a) ==
    IF NoCopy(a)
    THEN [shape |-> AtLeast1D(a.shape), strides |-> CStrides(AtLeast1D(a.shape)),
          offset |-> a.offset, dtype |-> "f64", store |-> "orig"]
    ELSE [shape |-> AtLeast1D(a.shape), strides |-> CStrides(AtLeast1D(a.shape)),
          offset |-> 0, dtype |-> "f64", store |-> "copy"]

\* the storage np.ascontiguousarray allocates when it copies
CopyStorage(a, m) == [f \in 1..SizeOf(a) |-> DoubleOf(m[a.store][ElemAddr(a, f - 1) + 1])]

\* variant of NdimOK: argtypes declared without ndim
NdimAny(a, nd) == TRUE

\* ndpointer(dtype=np.float64, ndim=nd, flags='C_CONTIGUOUS').from_param
NdimOK(a, nd) == Len(a.shape) = nd

ArgOK(a, nd) == a.dtype = "f64" /\ NdimOK(a, nd) /\ IsCContiguous(a)

\* ------------------------------------------------------ native helpers
\* variants of the loop condition: i <= size; i + 1 < size
LoopCond1DInclusive(i, size) == i <= size

LoopCond1DShort(i, size) == i + 1 < size

\* variants of the assigned value: (double)(i + 1); arr[i] += (double)i
Value1DOffByOne(i) == DoubleOf(i + 1)

Value1DAccumulate(i) ==
    IF n1.ptr.off + i + 1 \in 1..Len(mem[n1.ptr.store])
    THEN mem[n1.ptr.store][n1.ptr.off + i + 1] + DoubleOf(i)
    ELSE DoubleOf(i)

\* variants of the 2-D routine: the row stride taken from rows
FlatIndexRows(i, j, rows, cols) == i * rows + j

Value2DRows(i, j, rows, cols) == DoubleOf(i * rows + j)

\* loop conditions and assigned values of the two C routines
LoopCond1D(i, size) == i < size

Value1D(i) == DoubleOf(i)

FlatIndex(i, j, rows, cols) == i * cols + j

Value2D(i, j, rows, cols) == DoubleOf(i * cols + j)

InBounds(ptr, k) == ptr.off + k + 1 \in 1..Len(mem[ptr.store])

\* outcomes of the store arr[k] = v: inside the allocation it is the store;
\* outside it is undefined behaviour, either a fault or a write that lands
\* somewhere outside the modelled buffers
StoreOutcomes(ptr, k) == IF InBounds(ptr, k) THEN {"ok"} ELSE {"fault", "stray"}

Stored(ptr, k, v) ==
    [mem EXCEPT ![ptr.store] = [@ EXCEPT ![ptr.off + k + 1] = v]]

IdleFrame1 == [pc |-> "idle", ptr |-> [store |-> "orig", off |-> 0], size |-> 0,
               i |-> 0, log |-> {}, oob |-> FALSE]
IdleFrame2 == [pc |-> "idle", ptr |-> [store |-> "orig", off |-> 0], rows |-> 0, cols |-> 0,
               i |-> 0, j |-> 0, log |-> {}, oob |-> FALSE]
NoLocals == [size |-> 0, rows |-> 0, cols |-> 0]
NoSnap == [call |-> 0, orig |-> <<>>, buf |-> <<>>]

\* ---------------------------------------------------------------- inputs
Array1D(n, layout, dt) ==
    CASE layout = "C"     -> [shape |-> <<n>>, strides |-> <<1>>, offset |-> 0,
                              dtype |-> dt, store |-> "orig"]
      [] layout = "tail"  -> [shape |-> <<n>>, strides |-> <<1>>, offset |-> 1,
                              dtype |-> dt, store |-> "orig"]
      [] layout = "step2" -> [shape |-> <<n>>, strides |-> <<2>>, offset |-> 0,
                              dtype |-> dt, store |-> "orig"]
      [] layout = "rev"   -> [shape |-> <<n>>, strides |-> <<-1>>,
                              offset |-> IF n = 0 THEN 0 ELSE n - 1,
                              dtype |-> dt, store |-> "orig"]

Array2D(r, c, layout, dt) ==
    IF layout = "C"
    THEN [shape |-> <<r, c>>, strides |-> <<c, 1>>, offset |-> 0, dtype |-> dt, store |-> "orig"]
    ELSE [shape |-> <<r, c>>, strides |-> <<1, r>>, offset |-> 0, dtype |-> dt, store |-> "orig"]

Array0D(dt) == [shape |-> <<>>, strides |-> <<>>, offset |-> 0, dtype |-> dt, store |-> "orig"]

Array3D(dt) == [shape |-> <<2, 1, 1>>, strides |-> <<1, 1, 1>>, offset |-> 0,
                dtype |-> dt, store |-> "orig"]

Inputs ==
    {Array1D(n, l, dt) : n \in 0..MaxLen, l \in {"C", "tail", "step2", "rev"}, dt \in DTypes}
    \cup {Array2D(r, c, l, dt) : r \in 0..MaxDim, c \in 0..MaxDim, l \in {"C", "F"}, dt \in DTypes}
    \cup {Array0D(dt) : dt \in DTypes}
    \cup {Array3D(dt) : dt \in DTypes}

\* text arrays hold non-numeric strings; their cells are placeholders
InitialStorages(a) ==
    IF a.dtype = "text" THEN {[k \in 1..Extent(a) |-> 0]} ELSE [1..Extent(a) -> Values]

TypeOK ==
    /\ array \in Inputs
    /\ pc \in {"idle", "coerce", "extract", "invoke", "native", "returned", "raised", "harness"}
    /\ fn \in {"none", "1d", "2d"}
    /\ err \in {"none", "TypeConversionError", "ShapeMismatchError"}
    /\ calls \in 0..MaxCalls

Init ==
    /\ array \in Inputs
    /\ \E s \in InitialStorages(array) : mem = [orig |-> s, copy |-> <<>>]
    /\ pc = "idle"
    /\ fn = "none"
    /\ arr = array
    /\ loc = NoLocals
    /\ err = "none"
    /\ n1 = IdleFrame1
    /\ n2 = IdleFrame2
    /\ calls = 0
    /\ pre = mem.orig
    /\ snap = NoSnap

\* ------------------------------------------------------------- wrappers
\* the caller invokes fill_array(array) / fill_array_2d(array)
Enter(f) ==
    /\ pc \in {"idle", "returned", "raised"}
    /\ calls < MaxCalls
    /\ calls' = calls + 1
    /\ fn' = f
    /\ arr' = array
    /\ loc' = NoLocals
    /\ err' = "none"
    /\ n1' = IdleFrame1
    /\ n2' = IdleFrame2
    /\ mem' = [mem EXCEPT !.copy = <<>>]
    /\ pre' = mem.orig
    /\ pc' = "coerce"
    /\ UNCHANGED <<array, snap>>

Call1D == Enter("1d")

Call2D == Enter("2d")

\* arr = np.ascontiguousarray(arr, dtype=np.float64)
Coerce ==
    /\ pc = "coerce"
    /\ IF arr.dtype = "text"
       THEN /\ err' = "TypeConversionError"
            /\ pc' = "raised"
            /\ UNCHANGED <<arr, mem>>
       ELSE /\ arr' = AsContiguous(arr)
            /\ mem' = IF NoCopy(arr) THEN mem
                      ELSE [mem EXCEPT !.copy = CopyStorage(arr, mem)]
            /\ pc' = "extract"
            /\ err' = err
    /\ UNCHANGED <<array, fn, loc, n1, n2, calls, pre, snap>>

\* variant of ExtractSize: arr.nbytes read in place of arr.size
ExtractSizeBytes(a) == SizeOf(a) * 8

\* arr.size as the 1-D wrapper reads it
ExtractSize(a) == SizeOf(a)

\* rows, cols as the 2-D wrapper unpacks them from arr.shape
ExtractRows(a) == a.shape[1]

ExtractCols(a) == a.shape[2]

\* size = arr.size
Extract1D ==
    /\ pc = "extract" /\ fn = "1d"
    /\ loc' = [loc EXCEPT !.size = ExtractSize(arr)]
    /\ pc' = "invoke"
    /\ UNCHANGED <<array, mem, fn, arr, err, n1, n2, calls, pre, snap>>

\* rows, cols = arr.shape
Extract2D ==
    /\ pc = "extract" /\ fn = "2d"
    /\ IF Len(arr.shape) = 2
       THEN /\ loc' = [loc EXCEPT !.rows = ExtractRows(arr), !.cols = ExtractCols(arr)]
            /\ pc' = "invoke"
            /\ err' = err
       ELSE /\ err' = "ShapeMismatchError"
            /\ pc' = "raised"
            /\ loc' = loc
    /\ UNCHANGED <<array, mem, fn, arr, n1, n2, calls, pre, snap>>

\* lib.fill_array(arr, size): argument conversion, then the native call
Invoke1D ==
    /\ pc = "invoke" /\ fn = "1d"
    /\ IF ArgOK(arr, 1)
       THEN /\ n1' = [pc |-> "loop", ptr |-> [store |-> arr.store, off |-> arr.offset],
                      size |-> loc.size, i |-> 0, log |-> {}, oob |-> FALSE]
            /\ pc' = "native"
            /\ err' = err
       ELSE /\ err' = "ShapeMismatchError"
            /\ pc' = "raised"
            /\ n1' = n1
    /\ UNCHANGED <<array, mem, fn, arr, loc, n2, calls, pre, snap>>

\* lib2d.fill_array_2d(arr, rows, cols)
Invoke2D ==
    /\ pc = "invoke" /\ fn = "2d"
    /\ IF ArgOK(arr, 2)
       THEN /\ n2' = [pc |-> "loop", ptr |-> [store |-> arr.store, off |-> arr.offset],
                      rows |-> loc.rows, cols |-> loc.cols, i |-> 0, j |-> 0,
                      log |-> {}, oob |-> FALSE]
            /\ pc' = "native"
            /\ err' = err
       ELSE /\ err' = "ShapeMismatchError"
            /\ pc' = "raised"
            /\ n2' = n2
    /\ UNCHANGED <<array, mem, fn, arr, loc, n1, calls, pre, snap>>

\* record of the state a returning call leaves: the caller's storage and
\* the elements of the buffer the native routine was given
Snapshot == [call |-> calls, orig |-> mem.orig, buf |-> Contents(arr, mem)]

\* the native call has come back: the wrapper returns None
Return1D ==
    /\ pc = "native" /\ fn = "1d" /\ n1.pc = "done"
    /\ pc' = "returned"
    /\ snap' = IF snap.call = 0 THEN Snapshot ELSE snap
    /\ UNCHANGED <<array, mem, fn, arr, loc, err, n1, n2, calls, pre>>

Return2D ==
    /\ pc = "native" /\ fn = "2d" /\ n2.pc = "done"
    /\ pc' = "returned"
    /\ snap' = IF snap.call = 0 THEN Snapshot ELSE snap
    /\ UNCHANGED <<array, mem, fn, arr, loc, err, n1, n2, calls, pre>>

\* ------------------------------------------------------ native routines
\* fill_array: one iteration  arr[i] = (double)i; ++i
N1Body ==
    /\ n1.pc = "loop"
    /\ LoopCond1D(n1.i, n1.size)
    /\ \E o \in StoreOutcomes(n1.ptr, n1.i) :
          /\ mem' = IF o = "ok" THEN Stored(n1.ptr, n1.i, Value1D(n1.i)) ELSE mem
          /\ n1' = [n1 EXCEPT !.i = IF o = "fault" THEN @ ELSE @ + 1,
                              !.pc = IF o = "fault" THEN "crashed" ELSE @,
                              !.oob = @ \/ o # "ok",
                              !.log = @ \cup {<<n1.i, Value1D(n1.i)>>}]
    /\ UNCHANGED <<array, pc, fn, arr, loc, err, n2, calls, pre, snap>>

\* fill_array: the loop condition fails, the routine returns
N1Exit ==
    /\ n1.pc = "loop"
    /\ ~LoopCond1D(n1.i, n1.size)
    /\ n1' = [n1 EXCEPT !.pc = "done"]
    /\ UNCHANGED <<array, mem, pc, fn, arr, loc, err, n2, calls, pre, snap>>

\* fill_array_2d: one iteration of the inner loop
N2Body ==
    /\ n2.pc = "loop"
    /\ n2.i < n2.rows /\ n2.j < n2.cols
    /\ LET k == FlatIndex(n2.i, n2.j, n2.rows, n2.cols)
           v == Value2D(n2.i, n2.j, n2.rows, n2.cols)
       IN \E o \in StoreOutcomes(n2.ptr, k) :
          /\ mem' = IF o = "ok" THEN Stored(n2.ptr, k, v) ELSE mem
          /\ n2' = [n2 EXCEPT !.j = IF o = "fault" THEN @ ELSE @ + 1,
                              !.pc = IF o = "fault" THEN "crashed" ELSE @,
                              !.oob = @ \/ o # "ok",
                              !.log = @ \cup {<<k, v>>}]
    /\ UNCHANGED <<array, pc, fn, arr, loc, err, n1, calls, pre, snap>>

\* fill_array_2d: the inner loop ends, ++i
N2NextRow ==
    /\ n2.pc = "loop"
    /\ n2.i < n2.rows /\ ~(n2.j < n2.cols)
    /\ n2' = [n2 EXCEPT !.i = @ + 1, !.j = 0]
    /\ UNCHANGED <<array, mem, pc, fn, arr, loc, err, n1, calls, pre, snap>>

\* fill_array_2d: the outer loop ends, the routine returns
N2Exit ==
    /\ n2.pc = "loop"
    /\ ~(n2.i < n2.rows)
    /\ n2' = [n2 EXCEPT !.pc = "done"]
    /\ UNCHANGED <<array, mem, pc, fn, arr, loc, err, n1, calls, pre, snap>>

Next ==
    \/ Call1D \/ Call2D \/ Coerce
    \/ Extract1D \/ Extract2D \/ Invoke1D \/ Invoke2D
    \/ N1Body \/ N1Exit \/ N2Body \/ N2NextRow \/ N2Exit
    \/ Return1D \/ Return2D

Spec == Init /\ [][Next]_vars

\* A wrapper call is one synchronous, single-threaded call: once entered,
\* each of its steps is taken.  Whether the caller calls again is not forced.
Run ==
    \/ Coerce \/ Extract1D \/ Extract2D \/ Invoke1D \/ Invoke2D
    \/ N1Body \/ N1Exit \/ N2Body \/ N2NextRow \/ N2Exit
    \/ Return1D \/ Return2D

FairSpec == Spec /\ WF_vars(Run)

\* ------------------------------------------- the native routines alone
\* fill_array(p, rows*cols) and fill_array_2d(q, rows, cols) started on two
\* buffers of rows*cols doubles with the same contents
InitNative ==
    \E r \in 0..MaxDim, c \in 0..MaxDim :
      \E s \in [1..(r * c) -> Values] :
        /\ array = Array2D(r, c, "C", "f64")
        /\ arr = array
        /\ mem = [orig |-> s, copy |-> s]
        /\ pc = "harness"
        /\ fn = "none"
        /\ loc = [size |-> r * c, rows |-> r, cols |-> c]
        /\ err = "none"
        /\ n1 = [pc |-> "loop", ptr |-> [store |-> "orig", off |-> 0], size |-> r * c,
                 i |-> 0, log |-> {}, oob |-> FALSE]
        /\ n2 = [pc |-> "loop", ptr |-> [store |-> "copy", off |-> 0], rows |-> r, cols |-> c,
                 i |-> 0, j |-> 0, log |-> {}, oob |-> FALSE]
        /\ calls = 0
        /\ pre = s
        /\ snap = NoSnap

NextNative == N1Body \/ N1Exit \/ N2Body \/ N2NextRow \/ N2Exit

SpecNative == InitNative /\ [][NextNative]_vars

\* ---------------------------------------------------------------- claims
\* A buffer in the sense of the data model: doubles whose elements, taken in
\* row-major order, sit at consecutive addresses
IsBuffer(a) ==
    /\ a.dtype = "f64"
    /\ \A f \in 0..(SizeOf(a) - 1) : ElemAddr(a, f) = a.offset + f

\* slot f holds the value f, for every slot of a
Filled(a) == \A f \in 0..(SizeOf(a) - 1) : Contents(a, mem)[f + 1] = f

ZeroBefore == \A k \in 1..Len(pre) : pre[k] = 0

Slots(log) == {e[1] : e \in log}

\* C1: after fill_array returns on a zero-initialised buffer of length n,
\* arr[i] = i for every i in [0, n): the buffer handed to the native routine
\* holds i in slot i, and a caller whose array is itself that buffer reads
\* array[i] = i.
C1_FillArrayIndexes ==
    (pc = "returned" /\ fn = "1d" /\ ZeroBefore) =>
        /\ \A i \in 0..(arr.shape[1] - 1) : Contents(arr, mem)[i + 1] = i
        /\ IsBuffer(array) => \A i \in 0..(SizeOf(array) - 1) : Contents(array, mem)[i + 1] = i

C1_Witness ==
    /\ pc = "returned" /\ fn = "1d" /\ ZeroBefore
    /\ IsBuffer(array) /\ array.shape # <<>> /\ array.shape[1] >= 3
    /\ mem.orig[array.offset + 3] = 2

\* C2: after fill_array_2d returns on a rows x cols buffer, arr[i][j] =
\* i*cols + j for every i in [0, rows) and j in [0, cols), whatever the
\* buffer held before.
C2_FillArray2DIndexes ==
    (pc = "returned" /\ fn = "2d") =>
        /\ \A i \in 0..(arr.shape[1] - 1), j \in 0..(arr.shape[2] - 1) :
              mem[arr.store][ElemAddr(arr, i * arr.shape[2] + j) + 1] = i * arr.shape[2] + j
        /\ IsBuffer(array) =>
              \A i \in 0..(array.shape[1] - 1), j \in 0..(array.shape[2] - 1) :
                 mem.orig[array.offset + i * array.strides[1] + j * array.strides[2] + 1]
                    = i * array.shape[2] + j

C2_Witness ==
    /\ pc = "returned" /\ fn = "2d" /\ IsBuffer(array)
    /\ array.shape[1] >= 2 /\ array.shape[2] >= 3
    /\ \E k \in 1..Len(pre) : pre[k] # 0
    /\ mem.orig[array.shape[2] + 2] = array.shape[2] + 1

\* C3: when the input is not already a contiguous double buffer, the native
\* routine is given the fresh copy only, and every cell of the caller's
\* storage keeps the value it had when the call started.
C3_CopyLeavesOriginal ==
    (fn # "none" /\ ~IsBuffer(array)) =>
        /\ mem.orig = pre
        /\ n1.pc # "idle" => n1.ptr.store = "copy"
        /\ n2.pc # "idle" => n2.ptr.store = "copy"

C3_Witness ==
    /\ pc = "returned" /\ fn = "1d" /\ array.dtype = "f64" /\ ~IsBuffer(array)
    /\ Cardinality(n1.log) >= 2
    /\ mem.copy # Contents(array, mem)

\* C4: when the input is already a contiguous double buffer, coercion makes
\* no copy: the pointer handed to the native routine is the data pointer of
\* the caller's array, and after the call returns the caller's array is filled.
C4_NoCopyInPlace ==
    (fn # "none" /\ IsBuffer(array) /\ pc \in {"extract", "invoke", "native", "returned"}) =>
        /\ arr.store = "orig" /\ arr.offset = array.offset
        /\ mem.copy = <<>>
        /\ n1.pc # "idle" => n1.ptr = [store |-> "orig", off |-> array.offset]
        /\ n2.pc # "idle" => n2.ptr = [store |-> "orig", off |-> array.offset]
        /\ pc = "returned" => Filled(array)

C4_Witness ==
    /\ pc = "returned" /\ IsBuffer(array) /\ SizeOf(array) >= 2
    /\ mem.orig # pre

\* C5: a second fill of the same buffer leaves the contents the first one
\* left, and what a fill leaves does not depend on what was there before.
C5_Idempotent ==
    (pc = "returned" /\ snap.call # 0 /\ snap.call < calls) =>
        /\ mem.orig = snap.orig
        /\ Contents(arr, mem) = snap.buf

C5_Witness ==
    /\ pc = "returned" /\ snap.call # 0 /\ snap.call < calls
    /\ IsBuffer(array) /\ SizeOf(array) >= 2
    /\ \E k \in 1..Len(pre) : pre[k] # 0

\* C6: a fill of a zero-sized buffer (length 0; rows = 0 or cols = 0) writes
\* nothing and raises nothing.
C6_EmptyNoWrite ==
    (/\ fn # "none" /\ array.dtype # "text" /\ SizeOf(array) = 0
     /\ Len(array.shape) = (IF fn = "1d" THEN 1 ELSE 2)) =>
        /\ pc # "raised" /\ err = "none"
        /\ n1.log = {} /\ n2.log = {}
        /\ ~n1.oob /\ ~n2.oob
        /\ mem.orig = pre /\ mem.copy = <<>>

C6_Witness ==
    /\ pc = "returned" /\ fn = "2d" /\ array.dtype # "text"
    /\ array.shape[1] >= 2 /\ array.shape[2] = 0
    /\ n2.i = array.shape[1]

C6_Witness1D ==
    /\ pc = "returned" /\ fn = "1d" /\ array.dtype # "text" /\ array.shape = <<0>>

\* C7 as stated: an input whose number of dimensions is not the wrapper's
\* (one for fill_array, two for fill_array_2d) never reaches the native
\* routine.
C7_WrongNdimNeverRuns ==
    (fn # "none" /\ Len(array.shape) # (IF fn = "1d" THEN 1 ELSE 2)) =>
        /\ n1.pc = "idle" /\ n2.pc = "idle"
        /\ pc \notin {"native", "returned"}

\* C7 amended: fill_array_2d raises a shape-mismatch error for every numeric
\* input that does not have two dimensions, fill_array for every numeric
\* input that has two or more; the error is raised before the native routine
\* runs and nothing is written.  (A 0-d input to fill_array is promoted to a
\* one-element 1-d buffer by the coercion and filled.)
C7_ShapeMismatchRaised ==
    (/\ fn # "none" /\ array.dtype # "text"
     /\ \/ fn = "2d" /\ Len(array.shape) # 2
        \/ fn = "1d" /\ Len(array.shape) >= 2) =>
        /\ pc \in {"coerce", "extract", "invoke", "raised"}
        /\ pc = "raised" => err = "ShapeMismatchError"
        /\ fn = "2d" => pc # "invoke"
        /\ n1.pc = "idle" /\ n2.pc = "idle"
        /\ mem.orig = pre

C7_Witness ==
    /\ pc = "raised" /\ err = "ShapeMismatchError"
    /\ fn = "1d" /\ Len(array.shape) = 2 /\ IsBuffer(array) /\ SizeOf(array) >= 2

C7_Witness0D ==
    /\ pc = "returned" /\ fn = "1d" /\ array.shape = <<>> /\ n1.log = {<<0, 0>>}

\* C8: fill_array_2d(arr, rows, cols) and fill_array(arr, rows*cols), started
\* on the same buffer contents, write the same slots with the same values and
\* end with the same buffer contents.
C8_TwoDEqualsOneD ==
    (pc = "harness" /\ n1.pc \in {"done", "crashed"} /\ n2.pc \in {"done", "crashed"}) =>
        /\ n1.pc = "done" /\ n2.pc = "done"
        /\ n1.log = n2.log
        /\ mem.orig = mem.copy

C8_Witness ==
    /\ pc = "harness" /\ n1.pc = "done" /\ n2.pc = "done"
    /\ n2.rows >= 2 /\ n2.cols >= 2 /\ n2.rows # n2.cols
    /\ Cardinality(n2.log) = n2.rows * n2.cols
    /\ mem.orig # pre

\* C9: whenever a wrapper has called the native routine, the pointer is the
\* data pointer of the coerced buffer and the dimensions are that buffer's,
\* the element count fits the allocation behind the pointer, and every slot
\* written lies in [0, length).
C9_WritesInBounds ==
    /\ (pc # "harness" /\ n1.pc # "idle") =>
          /\ n1.ptr = [store |-> arr.store, off |-> arr.offset]
          /\ <<n1.size>> = arr.shape
          /\ n1.ptr.off + n1.size <= Len(mem[n1.ptr.store])
          /\ arr.store = "copy" => n1.size = Len(mem.copy)
          /\ \A k \in Slots(n1.log) : 0 <= k /\ k < n1.size
          /\ ~n1.oob /\ n1.pc # "crashed"
    /\ (pc # "harness" /\ n2.pc # "idle") =>
          /\ n2.ptr = [store |-> arr.store, off |-> arr.offset]
          /\ <<n2.rows, n2.cols>> = arr.shape
          /\ n2.ptr.off + n2.rows * n2.cols <= Len(mem[n2.ptr.store])
          /\ arr.store = "copy" => n2.rows * n2.cols = Len(mem.copy)
          /\ \A k \in Slots(n2.log) : 0 <= k /\ k < n2.rows * n2.cols
          /\ ~n2.oob /\ n2.pc # "crashed"

C9_Witness ==
    /\ pc = "native" /\ fn = "1d" /\ n1.pc = "done"
    /\ arr.store = "orig" /\ arr.offset > 0
    /\ n1.size >= 2 /\ Slots(n1.log) = 0..(n1.size - 1)

\* C10: a wrapper call either raises before the native routine has written
\* anything, or returns after the native loop has ended having written every
\* slot of the buffer; and every call that is entered ends in one of the two.
AllOrNothing ==
    /\ pc = "raised" =>
          /\ err # "none"
          /\ n1.pc = "idle" /\ n2.pc = "idle"
          /\ n1.log = {} /\ n2.log = {}
          /\ mem.orig = pre
    /\ pc = "returned" =>
          /\ err = "none"
          /\ IF fn = "1d" THEN n1.pc = "done" /\ Slots(n1.log) = 0..(SizeOf(arr) - 1)
                          ELSE n2.pc = "done" /\ Slots(n2.log) = 0..(SizeOf(arr) - 1)
          /\ Filled(arr)

C10_AllOrNothingAndEnds ==
    /\ []AllOrNothing
    /\ (pc = "coerce") ~> (pc \in {"returned", "raised"})

C10_Witness ==
    /\ pc = "returned" /\ fn = "2d" /\ arr.store = "copy"
    /\ Cardinality(n2.log) >= 4
    /\ calls = 2

====
